---- MODULE Spec2Model ----
(***************************************************************************)
(* Dispatch-and-relay core of the event-driven streaming service:          *)
(*   app/main.py    POST /stream: existence check, job submission and the  *)
(*                  generate() relay loop over the Redis stream            *)
(*   app/worker.py  generate_messages: the ARQ job that appends the        *)
(*                  messages, the [DONE] marker and sets the expiry        *)
(* The Redis store (streams, EXISTS, XADD, XREAD, EXPIRE, key expiry) and  *)
(* the ARQ executor are modelled by their contracts.                       *)
(***************************************************************************)
EXTENDS Integers, Sequences, FiniteSets, TLC

\* ------------------------------------------------------------------ bounds
\* range(20) in worker.py:42, scaled down
NumMessages == 2
\* max_retries = 30 in main.py:63, scaled down
MaxRetries == 1
\* number of POST /stream requests that are ever made
MaxRequests == 2

\* max_jobs of WorkerSettings
max_jobs == 10

\* the (feature_id, chat_id) pairs clients ask for
Pairs == {<<"feature-1", "chat-7">>}

\* ------------------------------------------------------------------ state
VARIABLES
    stream,     \* Redis: stream key -> sequence of entries [id, data]
    ttl,        \* Redis: stream key -> TRUE when a time-to-live is set on the key
    nextId,     \* Redis: number of stream IDs handed out so far (IDs only grow)
    jobs,       \* ARQ: the jobs enqueued so far, each with the position of its run
    req,        \* the POST /stream requests and their generate() relays
    overlap     \* history: stream key -> some request arrived while another was open

vars == <<stream, ttl, nextId, jobs, req, overlap>>

\* stream_key = f"stream:{feature_id}:{chat_id}"
StreamKey(feature_id, chat_id) == "stream:" \o feature_id \o ":" \o chat_id

\* two different pairs whose identifiers contain the ':' separator
ColonPairs == {<<"shop:eu", "7">>, <<"shop", "eu:7">>}

Keys == {StreamKey(p[1], p[2]) : p \in Pairs \union ColonPairs}

\* ---------------------------------------------------------- entry payloads
\* json.dumps(message): index, session components; stamp stands for the
\* timestamp / container fields that tell two runs apart
Message(i, feature_id, chat_id, j) ==
    [kind |-> "msg", id |-> i, feature_id |-> feature_id, chat_id |-> chat_id, stamp |-> j]

\* done_message = {"data": "[DONE]"}
DoneMarker == [kind |-> "[DONE]", id |-> 0, feature_id |-> "", chat_id |-> "", stamp |-> 0]

\* error_message = {"data": json.dumps({"error": ..., "feature_id", "chat_id"})}
ErrorRecord(feature_id, chat_id, j) ==
    [kind |-> "error", id |-> 0, feature_id |-> feature_id, chat_id |-> chat_id, stamp |-> j]

\* the payload of the relay's own frame: {"error": "Timeout waiting for messages"}
TimeoutError == [kind |-> "timeout", id |-> 0, feature_id |-> "", chat_id |-> "", stamp |-> 0]

\* yield f"data: {msg_data}\n\n"
Frame(msg_data) == <<"data: ", msg_data, "\n\n">>

\* ------------------------------------------------------------ Redis store
\* EXISTS key: a stream key exists from its first XADD until it expires
Exists(k) == stream[k] # <<>>

\* XADD key * data: appends under a fresh, larger ID; creates the key without
\* a time-to-live, keeps the time-to-live of an existing key
XAdd(s, k, data) == [s EXCEPT ![k] = Append(@, [id |-> nextId + 1, data |-> data])]

\* mutant of XRead: reads the newest entry instead of the next one
XReadNewest(k, last_id) ==
    LET later == SelectSeq(stream[k], LAMBDA e : e.id > last_id)
    IN  IF later = <<>> THEN <<>> ELSE <<later[Len(later)]>>

\* XREAD COUNT 1 BLOCK 1000 STREAMS key last_id: the first entry with an ID
\* greater than last_id, or nothing when the block times out
XRead(k, last_id) ==
    LET later == SelectSeq(stream[k], LAMBDA e : e.id > last_id)
    IN  IF later = <<>> THEN <<>> ELSE <<Head(later)>>

\* --------------------------------------------------------------- initial
IdleRequest ==
    [pc |-> "idle", feature_id |-> "", chat_id |-> "", stream_exists |-> FALSE,
     last_id |-> 0, retries |-> 0, frames |-> <<>>, expired |-> {}]

Init ==
    /\ stream = [k \in Keys |-> <<>>]
    /\ ttl = [k \in Keys |-> FALSE]
    /\ nextId = 0
    /\ jobs = <<>>
    /\ req = [r \in 1..MaxRequests |-> IdleRequest]
    /\ overlap = [k \in Keys |-> FALSE]

KeyOf(x) == StreamKey(x.feature_id, x.chat_id)

RelayTerminal == {"completed", "timedout", "disconnected"}
Open(r) == req[r].pc \in {"checked", "attached"}

\* ------------------------------------------------------- POST /stream
\* history, kept with the request: the runs of the session of k when all of
\* them have returned and the log they wrote is gone (expired); empty otherwise
ExpiredRuns(k) ==
    LET runs == {j \in 1..Len(jobs) : StreamKey(jobs[j].feature_id, jobs[j].chat_id) = k}
    IN  IF stream[k] = <<>> /\ \A j \in runs : jobs[j].pc = "returned" THEN runs ELSE {}

\* main.py:49-54: stream_exists = await redis_client.exists(stream_key)
Arrive(r, p) ==
    /\ req[r].pc = "idle"
    /\ r > 1 => req[r - 1].pc # "idle"
    /\ LET k == StreamKey(p[1], p[2]) IN
        /\ req' = [req EXCEPT ![r] = [@ EXCEPT !.pc = "checked",
                                               !.feature_id = p[1],
                                               !.chat_id = p[2],
                                               !.stream_exists = Exists(k),
                                               !.expired = ExpiredRuns(k)]]
        /\ overlap' = [overlap EXCEPT ![k] =
                          @ \/ \E o \in 1..MaxRequests : Open(o) /\ KeyOf(req[o]) = k]
    /\ UNCHANGED <<stream, ttl, nextId, jobs>>

QueuedJob(feature_id, chat_id) ==
    [feature_id |-> feature_id, chat_id |-> chat_id, pc |-> "queued", i |-> 0, last |-> "none"]

\* mutant of EnqueueJob: one job per session key, as a job id would give
EnqueueJobOnce(q, feature_id, chat_id) ==
    IF \E n \in 1..Len(q) : q[n].feature_id = feature_id /\ q[n].chat_id = chat_id
    THEN q
    ELSE Append(q, QueuedJob(feature_id, chat_id))

\* arq_pool.enqueue_job('generate_messages', feature_id, chat_id): no job id
\* is given, so every call adds a job
EnqueueJob(q, feature_id, chat_id) == Append(q, QueuedJob(feature_id, chat_id))

\* mutant of Dispatch: enqueues whatever the existence check said
DispatchAlways(r) ==
    /\ req[r].pc = "checked"
    /\ jobs' = Append(jobs, QueuedJob(req[r].feature_id, req[r].chat_id))
    /\ req' = [req EXCEPT ![r] = [@ EXCEPT !.pc = "attached", !.last_id = 0,
                                               !.retries = 0]]
    /\ UNCHANGED <<stream, ttl, nextId, overlap>>

\* mutant of Dispatch: the relay starts at the newest entry, not at 0-0
DispatchFromNow(r) ==
    /\ req[r].pc = "checked"
    /\ jobs' = IF req[r].stream_exists THEN jobs
               ELSE EnqueueJob(jobs, req[r].feature_id, req[r].chat_id)
    /\ req' = [req EXCEPT ![r] = [@ EXCEPT !.pc = "attached", !.last_id = nextId,
                                               !.retries = 0]]
    /\ UNCHANGED <<stream, ttl, nextId, overlap>>

\* main.py:56-61,99: enqueue when the stream was absent, then start generate()
Dispatch(r) ==
    /\ req[r].pc = "checked"
    /\ jobs' = IF req[r].stream_exists THEN jobs
               ELSE EnqueueJob(jobs, req[r].feature_id, req[r].chat_id)
    /\ req' = [req EXCEPT ![r] = [@ EXCEPT !.pc = "attached", !.last_id = 0,
                                               !.retries = 0]]
    /\ UNCHANGED <<stream, ttl, nextId, overlap>>

\* mutant of RelayRead: no return after the [DONE] frame
RelayReadNoReturn(r) ==
    /\ req[r].pc = "attached"
    /\ LET messages == XRead(KeyOf(req[r]), req[r].last_id) IN
        /\ messages # <<>>
        /\ LET e == messages[1] IN
            req' = [req EXCEPT ![r] =
                [@ EXCEPT !.last_id = e.id,
                          !.frames = Append(@, Frame(e.data)),
                          !.retries = 0]]
    /\ UNCHANGED <<stream, ttl, nextId, jobs, overlap>>

\* mutant of RelayRead: the entry read is removed from the stream
RelayReadConsume(r) ==
    /\ req[r].pc = "attached"
    /\ LET k == KeyOf(req[r])
           messages == XRead(k, req[r].last_id) IN
        /\ messages # <<>>
        /\ LET e == messages[1] IN
            /\ req' = [req EXCEPT ![r] =
                IF e.data = DoneMarker
                THEN [@ EXCEPT !.last_id = e.id,
                               !.frames = Append(@, Frame(DoneMarker)),
                               !.pc = "completed"]
                ELSE [@ EXCEPT !.last_id = e.id,
                               !.frames = Append(@, Frame(e.data)),
                               !.retries = 0]]
            /\ stream' = [stream EXCEPT ![k] = SelectSeq(@, LAMBDA x : x # e)]
    /\ UNCHANGED <<ttl, nextId, jobs, overlap>>

\* mutant of RelayRead: the retry counter is not reset on a message
RelayReadNoReset(r) ==
    /\ req[r].pc = "attached"
    /\ LET messages == XRead(KeyOf(req[r]), req[r].last_id) IN
        /\ messages # <<>>
        /\ LET e == messages[1] IN
            req' = [req EXCEPT ![r] =
                IF e.data = DoneMarker
                THEN [@ EXCEPT !.last_id = e.id,
                               !.frames = Append(@, Frame(DoneMarker)),
                               !.pc = "completed"]
                ELSE [@ EXCEPT !.last_id = e.id,
                               !.frames = Append(@, Frame(e.data))]]
    /\ UNCHANGED <<stream, ttl, nextId, jobs, overlap>>

\* mutant of RelayRead: moves the cursor to the newest entry of the log while
\* forwarding the oldest unread one
RelayReadJump(r) ==
    /\ req[r].pc = "attached"
    /\ LET messages == XRead(KeyOf(req[r]), req[r].last_id)
           newest == stream[KeyOf(req[r])][Len(stream[KeyOf(req[r])])] IN
        /\ messages # <<>>
        /\ LET e == messages[1] IN
            req' = [req EXCEPT ![r] =
                IF e.data = DoneMarker
                THEN [@ EXCEPT !.last_id = newest.id,
                               !.frames = Append(@, Frame(DoneMarker)),
                               !.pc = "completed"]
                ELSE [@ EXCEPT !.last_id = newest.id,
                               !.frames = Append(@, Frame(e.data)),
                               !.retries = 0]]
    /\ UNCHANGED <<stream, ttl, nextId, jobs, overlap>>

\* main.py:69-87: a poll that returns an entry
RelayRead(r) ==
    /\ req[r].pc = "attached"
    /\ LET messages == XRead(KeyOf(req[r]), req[r].last_id) IN
        /\ messages # <<>>
        /\ LET e == messages[1] IN
            req' = [req EXCEPT ![r] =
                IF e.data = DoneMarker
                THEN [@ EXCEPT !.last_id = e.id,
                               !.frames = Append(@, Frame(DoneMarker)),
                               !.pc = "completed"]
                ELSE [@ EXCEPT !.last_id = e.id,
                               !.frames = Append(@, Frame(e.data)),
                               !.retries = 0]]
    /\ UNCHANGED <<stream, ttl, nextId, jobs, overlap>>

\* mutant of RelayEmpty: gives up one poll early (>= instead of >)
RelayEmptyEarly(r) ==
    /\ req[r].pc = "attached"
    /\ XRead(KeyOf(req[r]), req[r].last_id) = <<>>
    /\ req' = [req EXCEPT ![r] =
            IF req[r].retries + 1 >= MaxRetries
            THEN [@ EXCEPT !.retries = @ + 1,
                           !.frames = Append(@, Frame(TimeoutError)),
                           !.pc = "timedout"]
            ELSE [@ EXCEPT !.retries = @ + 1]]
    /\ UNCHANGED <<stream, ttl, nextId, jobs, overlap>>

\* mutant of RelayEmpty: the empty poll is not counted
RelayEmptyNoCount(r) ==
    /\ req[r].pc = "attached"
    /\ XRead(KeyOf(req[r]), req[r].last_id) = <<>>
    /\ UNCHANGED vars

\* main.py:89-97: a poll that returns nothing
RelayEmpty(r) ==
    /\ req[r].pc = "attached"
    /\ XRead(KeyOf(req[r]), req[r].last_id) = <<>>
    /\ req' = [req EXCEPT ![r] =
            IF req[r].retries + 1 > MaxRetries
            THEN [@ EXCEPT !.retries = @ + 1,
                           !.frames = Append(@, Frame(TimeoutError)),
                           !.pc = "timedout"]
            ELSE [@ EXCEPT !.retries = @ + 1]]
    /\ UNCHANGED <<stream, ttl, nextId, jobs, overlap>>

\* mutant of Disconnect: the cancellation is passed on to the session's jobs
DisconnectCancels(r) ==
    /\ req[r].pc = "attached"
    /\ req' = [req EXCEPT ![r].pc = "disconnected"]
    /\ jobs' = [j \in 1..Len(jobs) |->
                  IF KeyOf(jobs[j]) = KeyOf(req[r]) /\ jobs[j].pc \notin {"returned", "raised"}
                  THEN [jobs[j] EXCEPT !.pc = "raised"]
                  ELSE jobs[j]]
    /\ UNCHANGED <<stream, ttl, nextId, overlap>>

\* the client closes the connection: the generator is closed at its
\* suspension point
Disconnect(r) ==
    /\ req[r].pc = "attached"
    /\ req' = [req EXCEPT ![r].pc = "disconnected"]
    /\ UNCHANGED <<stream, ttl, nextId, jobs, overlap>>

\* ------------------------------------------------- generate_messages (ARQ)
Running == {j \in 1..Len(jobs) : jobs[j].pc \in {"loop", "sentinel", "expire", "handler"}}

\* the worker picks a queued job, at most max_jobs at a time
StartJob(j) ==
    /\ jobs[j].pc = "queued"
    /\ Cardinality(Running) < max_jobs
    /\ jobs' = [jobs EXCEPT ![j].pc = IF NumMessages = 0 THEN "sentinel" ELSE "loop"]
    /\ UNCHANGED <<stream, ttl, nextId, req, overlap>>

\* mutant of ProduceMessage: the expiry is set inside the loop
ProduceMessageExpire(j) ==
    /\ jobs[j].pc = "loop"
    /\ LET J == jobs[j] IN
        /\ stream' = XAdd(stream, KeyOf(J), Message(J.i, J.feature_id, J.chat_id, j))
        /\ nextId' = nextId + 1
        /\ ttl' = [ttl EXCEPT ![KeyOf(J)] = TRUE]
        /\ jobs' = [jobs EXCEPT ![j] = [@ EXCEPT
                        !.i = @ + 1,
                        !.last = "msg",
                        !.pc = IF J.i + 1 = NumMessages THEN "sentinel" ELSE "loop"]]
    /\ UNCHANGED <<req, overlap>>

\* worker.py:42-60: one iteration of the loop
ProduceMessage(j) ==
    /\ jobs[j].pc = "loop"
    /\ LET J == jobs[j] IN
        /\ stream' = XAdd(stream, KeyOf(J), Message(J.i, J.feature_id, J.chat_id, j))
        /\ nextId' = nextId + 1
        /\ jobs' = [jobs EXCEPT ![j] = [@ EXCEPT
                        !.i = @ + 1,
                        !.last = "msg",
                        !.pc = IF J.i + 1 = NumMessages THEN "sentinel" ELSE "loop"]]
    /\ UNCHANGED <<ttl, req, overlap>>

\* worker.py:62-64: the completion marker
ProduceDone(j) ==
    /\ jobs[j].pc = "sentinel"
    /\ stream' = XAdd(stream, KeyOf(jobs[j]), DoneMarker)
    /\ nextId' = nextId + 1
    /\ jobs' = [jobs EXCEPT ![j] = [@ EXCEPT !.last = "[DONE]", !.pc = "expire"]]
    /\ UNCHANGED <<ttl, req, overlap>>

\* worker.py:66-69: EXPIRE key 60 (no effect on a key that does not exist),
\* then return
SetExpiry(j) ==
    /\ jobs[j].pc = "expire"
    /\ ttl' = [ttl EXCEPT ![KeyOf(jobs[j])] = Exists(KeyOf(jobs[j]))]
    /\ jobs' = [jobs EXCEPT ![j].pc = "returned"]
    /\ UNCHANGED <<stream, nextId, req, overlap>>

\* worker.py:41,71: an awaited call of the try block raises (the hashing
\* thread, an XADD or the EXPIRE) and control passes to the except block
Raise(j) ==
    /\ jobs[j].pc \in {"loop", "sentinel", "expire"}
    /\ jobs' = [jobs EXCEPT ![j].pc = "handler"]
    /\ UNCHANGED <<stream, ttl, nextId, req, overlap>>

\* worker.py:71-81: write the error record, re-raise
HandleError(j) ==
    /\ jobs[j].pc = "handler"
    /\ LET J == jobs[j] IN
        stream' = XAdd(stream, KeyOf(J), ErrorRecord(J.feature_id, J.chat_id, j))
    /\ nextId' = nextId + 1
    /\ jobs' = [jobs EXCEPT ![j] = [@ EXCEPT !.last = "error", !.pc = "raised"]]
    /\ UNCHANGED <<ttl, req, overlap>>

\* worker.py:80: the XADD of the except block raises as well
HandlerRaise(j) ==
    /\ jobs[j].pc = "handler"
    /\ jobs' = [jobs EXCEPT ![j].pc = "raised"]
    /\ UNCHANGED <<stream, ttl, nextId, req, overlap>>

\* Redis removes a key whose time-to-live has run out
ExpireKey(k) ==
    /\ ttl[k]
    /\ stream' = [stream EXCEPT ![k] = <<>>]
    /\ ttl' = [ttl EXCEPT ![k] = FALSE]
    /\ UNCHANGED <<nextId, jobs, req, overlap>>

Next ==
    \/ \E r \in 1..MaxRequests, p \in Pairs : Arrive(r, p)
    \/ \E r \in 1..MaxRequests : Dispatch(r)
    \/ \E r \in 1..MaxRequests : RelayRead(r)
    \/ \E r \in 1..MaxRequests : RelayEmpty(r)
    \/ \E r \in 1..MaxRequests : Disconnect(r)
    \/ \E j \in 1..Len(jobs) : StartJob(j)
    \/ \E j \in 1..Len(jobs) : ProduceMessage(j)
    \/ \E j \in 1..Len(jobs) : ProduceDone(j)
    \/ \E j \in 1..Len(jobs) : SetExpiry(j)
    \/ \E j \in 1..Len(jobs) : Raise(j)
    \/ \E j \in 1..Len(jobs) : HandleError(j)
    \/ \E j \in 1..Len(jobs) : HandlerRaise(j)
    \/ \E k \in Keys : ExpireKey(k)

Spec == Init /\ [][Next]_vars

\* a request that arrives when no other request is open
ArriveAlone(r, p) ==
    /\ \A o \in 1..MaxRequests : ~Open(o)
    /\ Arrive(r, p)

\* the system under clients that make their requests one after the other
SequentialNext ==
    \/ \E r \in 1..MaxRequests, p \in Pairs : ArriveAlone(r, p)
    \/ \E r \in 1..MaxRequests : Dispatch(r)
    \/ \E r \in 1..MaxRequests : RelayRead(r)
    \/ \E r \in 1..MaxRequests : RelayEmpty(r)
    \/ \E r \in 1..MaxRequests : Disconnect(r)
    \/ \E j \in 1..Len(jobs) : StartJob(j)
    \/ \E j \in 1..Len(jobs) : ProduceMessage(j)
    \/ \E j \in 1..Len(jobs) : ProduceDone(j)
    \/ \E j \in 1..Len(jobs) : SetExpiry(j)
    \/ \E j \in 1..Len(jobs) : Raise(j)
    \/ \E j \in 1..Len(jobs) : HandleError(j)
    \/ \E j \in 1..Len(jobs) : HandlerRaise(j)
    \/ \E k \in Keys : ExpireKey(k)

\* the system under clients that ask, one after the other, for sessions whose
\* identifiers contain ':'
ColonNext ==
    \/ \E r \in 1..MaxRequests, p \in ColonPairs : ArriveAlone(r, p)
    \/ \E r \in 1..MaxRequests : Dispatch(r)
    \/ \E r \in 1..MaxRequests : RelayRead(r)
    \/ \E r \in 1..MaxRequests : RelayEmpty(r)
    \/ \E r \in 1..MaxRequests : Disconnect(r)
    \/ \E j \in 1..Len(jobs) : StartJob(j)
    \/ \E j \in 1..Len(jobs) : ProduceMessage(j)
    \/ \E j \in 1..Len(jobs) : ProduceDone(j)
    \/ \E j \in 1..Len(jobs) : SetExpiry(j)
    \/ \E j \in 1..Len(jobs) : Raise(j)
    \/ \E j \in 1..Len(jobs) : HandleError(j)
    \/ \E j \in 1..Len(jobs) : HandlerRaise(j)
    \/ \E k \in Keys : ExpireKey(k)

ColonSpec == Init /\ [][ColonNext]_vars

\* the relay loop resumes whenever its bounded read returns; nothing else is
\* assumed to make progress (jobs may stay queued, clients may stay connected)
RelayFairness == \A r \in 1..MaxRequests : WF_vars(RelayRead(r) \/ RelayEmpty(r))

FairSpec == Spec /\ RelayFairness

FairSequentialSpec == Init /\ [][SequentialNext]_vars /\ RelayFairness

\* ------------------------------------------------------------ vocabulary
JobsFor(k) == {j \in 1..Len(jobs) : KeyOf(jobs[j]) = k}

\* the runs that have appended at least one entry to the log of k
Writers(k) == {j \in JobsFor(k) : jobs[j].last # "none"}

Dispatched(r) == req[r].pc \notin {"idle", "checked"}

Payload(frame) == frame[2]

\* frames 1..NumMessages carry the messages 0..NumMessages-1 in order and
\* the next and last frame is the [DONE] frame
DeliversRun(frames) ==
    /\ Len(frames) = NumMessages + 1
    /\ \A n \in 1..NumMessages :
          Payload(frames[n]).kind = "msg" /\ Payload(frames[n]).id = n - 1
    /\ frames[NumMessages + 1] = Frame(DoneMarker)

\* ------------------------------------------------------------------- C1
\* C1 (as stated): every relay that has seen the sentinel has emitted exactly
\* the messages 0..NumMessages-1 in increasing order, each once, and then the
\* [DONE] frame as its last frame.
C1_AsStated ==
    \A r \in 1..MaxRequests : req[r].pc = "completed" => DeliversRun(req[r].frames)

\* C1 (amended): when only one producer run has written to the session's log,
\* every relay that has seen the sentinel, whenever it attached, has emitted
\* exactly the messages 0..NumMessages-1 in increasing order, each once, and
\* then the [DONE] frame as its last frame.
C1_SingleRunDelivery ==
    \A r \in 1..MaxRequests :
        (req[r].pc = "completed" /\ Cardinality(Writers(KeyOf(req[r]))) <= 1)
            => DeliversRun(req[r].frames)

\* two relays of one single-writer session have completed, the first attached
\* before the log existed, the second after entries had been appended
C1_Witness ==
    /\ req[1].pc = "completed" /\ ~req[1].stream_exists
    /\ req[2].pc = "completed" /\ req[2].stream_exists
    /\ KeyOf(req[1]) = KeyOf(req[2])
    /\ Cardinality(Writers(KeyOf(req[1]))) = 1
    /\ DeliversRun(req[2].frames)

\* ------------------------------------------------------------------- C2
IsTerminal(e) == e.data.kind \in {"[DONE]", "error"}

\* C2: every session log holds at most one terminal entry (sentinel or error
\* record) and nothing is appended after it: a terminal entry is the last one.
\* Stated for the logs of sessions with a single submitted job, where no second
\* run can be the one that appends.
C2_OneTerminalLast ==
    \A k \in Keys : Cardinality(JobsFor(k)) <= 1 =>
        \A n \in 1..Len(stream[k]) : IsTerminal(stream[k][n]) => n = Len(stream[k])

\* ------------------------------------------------------------------- C3
\* C3: a relay that has forwarded the error record of a failed run emits no
\* further frame: the error frame is its last frame and the only error frame.
C3_ErrorFrameIsLast ==
    \A r \in 1..MaxRequests : \A n \in 1..Len(req[r].frames) :
        Payload(req[r].frames[n]).kind = "error" => n = Len(req[r].frames)

\* ------------------------------------------------------------------- C4
\* C4: as long as no request to a session arrived while another request to it
\* was still open, at most one job has been submitted for that session.
C4_SequentialSubmitOnce ==
    \A k \in Keys : ~overlap[k] => Cardinality(JobsFor(k)) <= 1

\* ------------------------------------------------------------------- C5
Active(k) == {j \in JobsFor(k) : jobs[j].pc \notin {"returned", "raised"}}

\* C5 (as stated): at most one producer run is queued or running for any one
\* session.
C5_AsStated == \A k \in Keys : Cardinality(Active(k)) <= 1

SawAbsent(k) ==
    {r \in 1..MaxRequests : Dispatched(r) /\ KeyOf(req[r]) = k /\ ~req[r].stream_exists}

\* C5 (amended): the producer runs submitted for a session, queued or running
\* ones included, are never more than the requests that found the log absent
\* at their existence check; a request that found it present adds none.
C5_JobsBoundedByAbsentChecks ==
    \A k \in Keys :
        /\ Cardinality(Active(k)) <= Cardinality(SawAbsent(k))
        /\ Cardinality(JobsFor(k)) <= Cardinality(SawAbsent(k))

\* two runs of one session are in progress at once, each submitted by a
\* request that found the log absent
C5_Witness ==
    \E k \in Keys :
        /\ Cardinality({j \in JobsFor(k) : jobs[j].pc = "loop"}) = 2
        /\ Cardinality(SawAbsent(k)) = 2

\* ------------------------------------------------------------------- C6
\* C6: two requests for one session that both found the log absent have both
\* submitted a job: two jobs exist for the session.
C6_RaceSubmitsTwice ==
    \A r1, r2 \in 1..MaxRequests :
        (/\ r1 # r2
         /\ Dispatched(r1) /\ Dispatched(r2)
         /\ KeyOf(req[r1]) = KeyOf(req[r2])
         /\ ~req[r1].stream_exists /\ ~req[r2].stream_exists)
            => Cardinality(JobsFor(KeyOf(req[r1]))) >= 2

\* both requests checked a never-written log while the other was open, and
\* both have submitted
C6_Witness ==
    /\ nextId = 0
    /\ req[1].pc = "attached" /\ ~req[1].stream_exists
    /\ req[2].pc = "attached" /\ ~req[2].stream_exists
    /\ KeyOf(req[1]) = KeyOf(req[2])
    /\ overlap[KeyOf(req[1])]
    /\ Cardinality(JobsFor(KeyOf(req[1]))) = 2

\* ------------------------------------------------------------------- C7
TimeoutFrames(frames) == {n \in 1..Len(frames) : frames[n] = Frame(TimeoutError)}

TimedOutOnce(r) ==
    IF req[r].pc = "timedout"
    THEN /\ TimeoutFrames(req[r].frames) = {Len(req[r].frames)}
         /\ req[r].retries = MaxRetries + 1
         /\ req[r].last_id = 0 => req[r].frames = <<Frame(TimeoutError)>>
    ELSE TimeoutFrames(req[r].frames) = {}

\* C7: a relay whose polls stay empty up to the inactivity ceiling emits the
\* timeout frame exactly once, as its last frame (its only frame when it never
\* read an entry), on the poll that takes the counter past the ceiling; from
\* then on it neither reads nor emits: nothing of its state changes.
C7_TimeoutOnceThenStop ==
    /\ [](\A r \in 1..MaxRequests : TimedOutOnce(r))
    /\ [][\A r \in 1..MaxRequests : req[r].pc = "timedout" => req'[r] = req[r]]_vars

\* a relay timed out on a log that never received an entry, and the system
\* has moved on since (the job it submitted has started)
C7_Witness ==
    \E r \in 1..MaxRequests :
        /\ req[r].pc = "timedout"
        /\ req[r].frames = <<Frame(TimeoutError)>>
        /\ \E j \in JobsFor(KeyOf(req[r])) : jobs[j].pc = "loop"

\* ------------------------------------------------------------------- C8
\* C8: every attached relay eventually completes, times out or is
\* disconnected, whatever the producer does.
C8_RelayTerminates ==
    \A r \in 1..MaxRequests :
        (req[r].pc = "attached") ~> (req[r].pc \in RelayTerminal)

\* a relay gave up on a job that was never picked up
C8_Witness ==
    \E r \in 1..MaxRequests :
        /\ req[r].pc = "timedout"
        /\ \A j \in JobsFor(KeyOf(req[r])) : jobs[j].pc = "queued"
        /\ JobsFor(KeyOf(req[r])) # {}

\* ------------------------------------------------------------------- C9
\* C9: a run that returned left the sentinel as its last entry, and a run
\* that raised left an error record as its last entry.
C9_RunEndsWithTerminal ==
    \A j \in 1..Len(jobs) :
        /\ jobs[j].pc = "returned" => jobs[j].last = "[DONE]"
        /\ jobs[j].pc = "raised" => jobs[j].last = "error"

\* ------------------------------------------------------------------ C10
\* C10: once a run has finished, with success or with an error, the session
\* log, while it still exists, has the time-to-live set on it.
C10_FinishedRunHasExpiry ==
    \A j \in 1..Len(jobs) :
        (jobs[j].pc \in {"returned", "raised"} /\ Exists(KeyOf(jobs[j])))
            => ttl[KeyOf(jobs[j])]

\* ------------------------------------------------------------------ C11
\* the frames a relay forwarded from log entries (its own timeout frame is
\* not an entry)
EntryFrames(r) == SelectSeq(req[r].frames, LAMBDA f : f # Frame(TimeoutError))

IsPrefix(a, b) == Len(a) <= Len(b) /\ \A n \in 1..Len(a) : a[n] = b[n]

\* C11: of any two relays that tail the same session log at the same time,
\* the entry frames emitted by one are a prefix of those emitted by the other.
C11_RelaysPrefixConsistent ==
    \A r1, r2 \in 1..MaxRequests :
        (/\ req[r1].pc = "attached" /\ req[r2].pc = "attached"
         /\ KeyOf(req[r1]) = KeyOf(req[r2]))
            => \/ IsPrefix(EntryFrames(r1), EntryFrames(r2))
               \/ IsPrefix(EntryFrames(r2), EntryFrames(r1))

\* ------------------------------------------------------------------ C12
\* C12: the step by which a relay is disconnected changes nothing but that
\* relay: the jobs (queued, running or ended), the session logs with their
\* time-to-live and every other relay are left as they were, so the run goes
\* on appending exactly as it would have.
C12_DisconnectTouchesOnlyRelay ==
    [][\A r \in 1..MaxRequests :
          (req[r].pc = "attached" /\ req'[r].pc = "disconnected")
              => /\ jobs' = jobs
                 /\ stream' = stream /\ ttl' = ttl /\ nextId' = nextId
                 /\ \A o \in 1..MaxRequests : o # r => req'[o] = req[o]]_vars

\* a relay left after message 0; the run nevertheless appended everything up
\* to the sentinel and returned, and the other relay received all of it
C12_Witness ==
    /\ req[1].pc = "disconnected" /\ Len(req[1].frames) = 1
    /\ req[2].pc = "completed" /\ DeliversRun(req[2].frames)
    /\ Len(jobs) = 1 /\ jobs[1].pc = "returned"

\* ------------------------------------------------------------------ C13
\* C13: the step from the existence check to the relay submits no job when
\* the check found the log and exactly one job when it found it absent, and
\* starts the relay at the origin; the first entry a relay forwards is the
\* first entry of the log, whichever request caused it to be written.
C13_AdmissionByExistence ==
    [][\A r \in 1..MaxRequests :
          /\ (req[r].pc = "idle" /\ req'[r].pc = "checked")
                => /\ req'[r].stream_exists = Exists(KeyOf(req'[r]))
                   /\ jobs' = jobs
          /\ (req[r].pc = "checked" /\ req'[r].pc # "checked")
                => /\ req'[r].pc = "attached"
                   /\ req'[r].last_id = 0 /\ req'[r].frames = <<>>
                   /\ Len(jobs') = Len(jobs) + (IF req[r].stream_exists THEN 0 ELSE 1)
                   /\ \A j \in 1..Len(jobs) : jobs'[j] = jobs[j]
                   /\ \A j \in (Len(jobs) + 1)..Len(jobs') :
                         /\ KeyOf(jobs'[j]) = KeyOf(req[r])
                         /\ jobs'[j].pc = "queued"
          /\ (req[r].pc = "attached" /\ req[r].frames = <<>> /\ EntryFrames(r)' # <<>>)
                => req'[r].frames = <<Frame(Head(stream[KeyOf(req[r])]).data)>>]_vars

\* a request found the log another request had caused, submitted nothing and
\* its relay delivered the run from message 0
C13_Witness ==
    /\ req[2].pc = "completed" /\ req[2].stream_exists
    /\ Dispatched(1) /\ ~req[1].stream_exists
    /\ Len(jobs) = 1
    /\ DeliversRun(req[2].frames)

\* ------------------------------------------------------------------ C14
\* C14: sessions with different (feature_id, chat_id) pairs never share a
\* log: every message or error record a relay forwards was written by a run
\* for the relay's own pair.
C14_NoForeignEntries ==
    \A r \in 1..MaxRequests : \A n \in 1..Len(req[r].frames) :
        Payload(req[r].frames[n]).kind \in {"msg", "error"}
            => /\ Payload(req[r].frames[n]).feature_id = req[r].feature_id
               /\ Payload(req[r].frames[n]).chat_id = req[r].chat_id

\* ------------------------------------------------------------------ C15
FinalFrames(frames) ==
    {n \in 1..Len(frames) : frames[n] \in {Frame(DoneMarker), Frame(TimeoutError)}}

\* C15: a relay that has completed, timed out or been disconnected never
\* changes again (no frame, no read, no other state), whatever is appended
\* afterwards; a relay emits at most one done-or-timeout frame, as its last
\* frame, and only a relay that then stopped has emitted one.
C15_TerminalStatesAbsorbing ==
    /\ [](\A r \in 1..MaxRequests :
            /\ Cardinality(FinalFrames(req[r].frames)) <= 1
            /\ FinalFrames(req[r].frames) \subseteq {Len(req[r].frames)}
            /\ FinalFrames(req[r].frames) # {} => req[r].pc \in {"completed", "timedout"})
    /\ [][\A r \in 1..MaxRequests :
            req[r].pc \in RelayTerminal => req'[r] = req[r]]_vars

\* a relay completed at the sentinel and an entry was appended to its log
\* after that
C15_Witness ==
    \E r \in 1..MaxRequests :
        /\ req[r].pc = "completed"
        /\ \E n \in 1..Len(stream[KeyOf(req[r])]) :
              stream[KeyOf(req[r])][n].id > req[r].last_id

\* ------------------------------------------------------------------ C16
\* the step is the store removing the key k whose time-to-live ran out
IsExpiryOf(k) ==
    /\ ttl[k] /\ ~ttl'[k] /\ stream'[k] = <<>>
    /\ jobs' = jobs /\ req' = req

\* the step is a run for k appending one entry at the end of the log of k
IsAppendTo(k) ==
    /\ Len(stream'[k]) = Len(stream[k]) + 1
    /\ SubSeq(stream'[k], 1, Len(stream[k])) = stream[k]
    /\ stream'[k][Len(stream'[k])].id > nextId
    /\ ttl' = ttl /\ req' = req
    /\ \E j \in 1..Len(jobs) :
          /\ KeyOf(jobs[j]) = k
          /\ jobs[j].pc \in {"loop", "sentinel", "handler"}
          /\ jobs'[j] # jobs[j]

\* the step is a run for k setting the time-to-live
IsSetExpiryOn(k) ==
    /\ stream' = stream /\ req' = req
    /\ \E j \in 1..Len(jobs) :
          KeyOf(jobs[j]) = k /\ jobs[j].pc = "expire" /\ jobs'[j].pc = "returned"

\* C16: a step of the dispatcher or of a relay (any step that changes a
\* request) leaves every log, its time-to-live and the stream IDs as they
\* were; a log's content changes only by a run appending one entry at its end
\* or by expiry removing the key, and a time-to-live only by a run setting it
\* or by expiry.
C16_OnlyProducerAndExpiryWrite ==
    [][/\ req' # req => (stream' = stream /\ ttl' = ttl /\ nextId' = nextId)
       /\ \A k \in Keys :
            /\ stream'[k] # stream[k] => (IsExpiryOf(k) \/ IsAppendTo(k))
            /\ ttl'[k] # ttl[k] => (IsExpiryOf(k) \/ IsSetExpiryOn(k))]_vars

\* both relays have read the whole log to the sentinel and the log still
\* holds every entry
C16_Witness ==
    /\ req[1].pc = "completed" /\ req[2].pc = "completed"
    /\ KeyOf(req[1]) = KeyOf(req[2])
    /\ Len(stream[KeyOf(req[1])]) = NumMessages + 1
    /\ req[1].last_id = stream[KeyOf(req[1])][NumMessages + 1].id

LastOf(k) == stream[k][Len(stream[k])]

\* C18: a run appends message i only after messages 0..i-1 (its index grows
\* by one per append, from 0), appends the sentinel only after message
\* NumMessages-1, and a time-to-live is set only by a run that has appended
\* its sentinel after all its messages.
C18_RunAppendsInOrder ==
    /\ [](\A j \in 1..Len(jobs) :
            /\ jobs[j].pc = "loop" => jobs[j].i < NumMessages
            /\ jobs[j].last = "none" => jobs[j].i = 0
            /\ jobs[j].last = "[DONE]" => jobs[j].i = NumMessages
            /\ jobs[j].pc \in {"expire", "returned"} => jobs[j].last = "[DONE]")
    /\ [][/\ \A j \in 1..Len(jobs) :
               LET J == jobs[j]
                   K == jobs'[j] IN
               /\ K.i # J.i
                    => /\ K.i = J.i + 1
                       /\ J.last \in {"none", "msg"} /\ K.last = "msg"
                       /\ LastOf(KeyOf(J))'.data =
                              Message(J.i, J.feature_id, J.chat_id, j)
               /\ (K.last = "[DONE]" /\ J.last # "[DONE]")
                    => /\ J.i = NumMessages /\ K.i = J.i /\ J.last = "msg"
                       /\ LastOf(KeyOf(J))'.data = DoneMarker
          /\ \A k \in Keys :
               (ttl'[k] /\ ~ttl[k])
                    => \E j \in 1..Len(jobs) :
                          /\ KeyOf(jobs[j]) = k
                          /\ jobs[j].last = "[DONE]" /\ jobs[j].i = NumMessages
                          /\ jobs'[j].pc = "returned"]_vars

\* a run has returned: its messages, then the sentinel, are in the log and
\* the time-to-live is set
C18_Witness ==
    \E j \in 1..Len(jobs) :
        /\ jobs[j].pc = "returned"
        /\ ttl[KeyOf(jobs[j])]
        /\ Len(stream[KeyOf(jobs[j])]) = NumMessages + 1
        /\ \A n \in 1..NumMessages :
              stream[KeyOf(jobs[j])][n].data =
                  Message(n - 1, jobs[j].feature_id, jobs[j].chat_id, j)
        /\ LastOf(KeyOf(jobs[j])).data = DoneMarker

\* ------------------------------------------------------------------ C19
\* C19: a request that arrives when every run of its session has returned and
\* the log they wrote has expired finds the log absent and submits a new job;
\* its relay never forwards a message or error record of the expired runs,
\* and, the new run being the only one submitted since, the first entry it
\* forwards is the first one of that run (message 0, or the error record of a
\* run that failed before its first append).
C19_FreshRunAfterExpiry ==
    \A r \in 1..MaxRequests :
        req[r].expired # {} =>
            /\ ~req[r].stream_exists
            /\ Dispatched(r) => JobsFor(KeyOf(req[r])) \ req[r].expired # {}
            /\ \A n \in 1..Len(req[r].frames) :
                  Payload(req[r].frames[n]).kind \in {"msg", "error"}
                      => Payload(req[r].frames[n]).stamp \notin req[r].expired
            /\ (/\ EntryFrames(r) # <<>>
                /\ Cardinality(JobsFor(KeyOf(req[r])) \ req[r].expired) = 1) =>
                  \/ /\ Payload(EntryFrames(r)[1]).kind = "msg"
                     /\ Payload(EntryFrames(r)[1]).id = 0
                  \/ Payload(EntryFrames(r)[1]).kind = "error"

\* the second request came after run 1 had returned and its log had expired;
\* its relay delivered run 2 from message 0 to the sentinel
C19_Witness ==
    /\ req[2].pc = "completed"
    /\ req[2].expired = {1}
    /\ DeliversRun(req[2].frames)
    /\ \A n \in 1..NumMessages : Payload(req[2].frames[n]).stamp = 2

\* ------------------------------------------------------------------ C20
\* the entries of the relay's log at or before its cursor
UpToCursor(r) ==
    SelectSeq(stream[KeyOf(req[r])], LAMBDA e : e.id <= req[r].last_id)

\* the emitted entry frames are as many as the log entries up to the cursor
CountsAgree(r) == Dispatched(r) => Len(EntryFrames(r)) = Len(UpToCursor(r))

\* what one step may do to the cursor of relay r: never move it back; move it
\* only in a poll of r that returned an entry, to the ID of that entry, whose
\* frame is the one frame the step emits; and no step of another relay, of a
\* run or of expiry moves it
CursorStep(r) ==
    /\ req'[r].last_id >= req[r].last_id
    /\ EntryFrames(r)' # EntryFrames(r) => req'[r].last_id # req[r].last_id
    /\ req'[r].last_id # req[r].last_id =>
          /\ req[r].pc = "attached"
          /\ LET messages == XRead(KeyOf(req[r]), req[r].last_id) IN
                /\ Len(messages) = 1
                /\ req'[r].last_id = messages[1].id
                /\ req'[r].frames = Append(req[r].frames, Frame(messages[1].data))
          /\ \A q \in 1..MaxRequests \ {r} : req'[q] = req[q]
          /\ jobs' = jobs /\ stream' = stream /\ ttl' = ttl

\* the cursor is at the origin, with no frame emitted, until the relay starts
CursorAtOrigin(r) ==
    /\ ~Dispatched(r) => (req[r].last_id = 0 /\ req[r].frames = <<>>)
    /\ req[r].last_id = 0 => EntryFrames(r) = <<>>

\* C20 as stated: the cursor starts at the origin, never moves backwards,
\* moves only in its own relay's non-empty read to the entry returned, and the
\* number of entry frames a relay has emitted ALWAYS equals the number of log
\* entries at or before its cursor.
C20_AsStated ==
    /\ [](\A r \in 1..MaxRequests : CursorAtOrigin(r) /\ CountsAgree(r))
    /\ [][\A r \in 1..MaxRequests : CursorStep(r)]_vars

\* C20, amended: the cursor starts at the origin, never moves backwards,
\* moves only in its own relay's non-empty read, to the ID of the single entry
\* returned, and no other relay, run or expiry step moves it; the number of
\* entry frames emitted equals the number of log entries at or before the
\* cursor for as long as the key has not expired: every step other than the
\* expiry of the relay's key keeps the two counts equal.
C20_CursorOwnedByRelay ==
    /\ [](\A r \in 1..MaxRequests : CursorAtOrigin(r))
    /\ [][\A r \in 1..MaxRequests :
            /\ CursorStep(r)
            /\ (Dispatched(r) /\ CountsAgree(r) /\ ~IsExpiryOf(KeyOf(req[r])))
                  => CountsAgree(r)']_vars

\* two relays of one log at different cursors: the first has read the whole
\* log to the sentinel, the second only its first entry, and the log still
\* holds every entry
C20_Witness ==
    /\ req[1].pc = "completed" /\ req[2].pc = "attached"
    /\ Len(stream[KeyOf(req[1])]) = NumMessages + 1
    /\ Len(UpToCursor(1)) = NumMessages + 1
    /\ Len(EntryFrames(1)) = NumMessages + 1
    /\ Len(UpToCursor(2)) = 1
    /\ Len(EntryFrames(2)) = 1

====
